---- MODULE Spec2Model ----
(***************************************************************************)
(* Model of PWM/main.c: the main program (driver initialisation followed   *)
(* by the preset loop), the PMOD BTN interrupt handler and the Timer 0A    *)
(* periodic task, together with the two PWM channels they write.           *)
(*                                                                         *)
(* Interrupt handlers run to completion, so each handler invocation is one *)
(* action.  One firing of Timer 0A is one millisecond of time: it runs     *)
(* Timer_0A_Periodic_Task and, when main is blocked in SysTick_Delay1ms,   *)
(* takes one millisecond off the remaining delay.                          *)
(***************************************************************************)
EXTENDS Integers, Sequences, FiniteSets

VARIABLES
    Timer_0A_ms_elapsed,   \* main.c:40  static uint32_t
    RGB_LED_duty_cycle,    \* main.c:43  static uint16_t
    increment_duty_cycle,  \* main.c:47  static uint8_t
    PWM1_3,                \* M1PWM generator 3 (PF2, RGB LED): [ready, period, duty]
    PWM0_0,                \* M0PWM generator 0 (PB6, servo):   [ready, period, duty]
    handlers,              \* callbacks registered with the interrupt sources
    pc,                    \* line of main() that executes next
    delay_left,            \* milliseconds left in the running SysTick_Delay1ms call
    preempts,              \* timer firings that hit main outside a delay since the last delay began
    now,                   \* milliseconds (Timer 0A firings) since the initial state
    op,                    \* the routine that ran last
    calls,                 \* the PWM driver calls that routine made, in order
    main_log,              \* the PWM update calls main() has made, in order
    idle_ticks             \* invocations of the periodic task since the last qualifying one

vars == <<Timer_0A_ms_elapsed, RGB_LED_duty_cycle, increment_duty_cycle, PWM1_3,
          PWM0_0, handlers, pc, delay_left, preempts, now, op, calls, main_log,
          idle_ticks>>

fade == <<Timer_0A_ms_elapsed, RGB_LED_duty_cycle, increment_duty_cycle>>

-----------------------------------------------------------------------------
(* Bounds of the model *)

\* milliseconds of run time explored by Spec and SpecFalling
MaxTicks == 6600

\* milliseconds of run time explored by SpecBtn
BtnHorizon == 2010

\* milliseconds during which SpecBtn delivers button events (all 256 statuses)
BtnTicks == 12

\* milliseconds of run time explored by SpecWrap
WrapTicks == 40

\* timer firings that may hit main between the end of one delay and the start of the next
MaxPreempt == 1

-----------------------------------------------------------------------------
(* Integer widths *)

\* uint16_t holds 0 .. Uint16 - 1
Uint16 == 65536

\* A uint32_t is kept as its two 16-bit halves, value = hi * Uint16 + lo.
U32(n) == [hi |-> (n \div Uint16) % Uint16, lo |-> n % Uint16]

\* mutant of U32Inc: the counter saturates at 2^32 - 1 instead of wrapping
U32Inc_Saturating(x) ==
    IF x.lo + 1 < Uint16 THEN [hi |-> x.hi, lo |-> x.lo + 1]
    ELSE IF x.hi + 1 < Uint16 THEN [hi |-> x.hi + 1, lo |-> 0]
    ELSE x

\* x + 1 modulo 2^32
U32Inc(x) ==
    IF x.lo + 1 < Uint16 THEN [hi |-> x.hi, lo |-> x.lo + 1]
    ELSE [hi |-> (x.hi + 1) % Uint16, lo |-> 0]

\* x % m for a small positive m
U32Mod(x, m) == (((x.hi % m) * (Uint16 % m)) + (x.lo % m)) % m

-----------------------------------------------------------------------------
(* The PWM drivers (PWM1_3.h, PWM0_0.h): init(period, duty), update_duty(duty) *)

PWM_Reset == [ready |-> FALSE, period |-> 0, duty |-> 0]

PWM_Init(period_constant, duty_cycle) ==
    [ready |-> TRUE, period |-> period_constant, duty |-> duty_cycle]

PWM_Update_Duty_Cycle(chan, duty_cycle) == [chan EXCEPT !.duty = duty_cycle]

Call(channel, duty_cycle) == [ch |-> channel, duty |-> duty_cycle]

\* the driver state of channel `name` after the update calls `cs`, in order
RECURSIVE Drive(_, _, _)
Drive(name, chan, cs) ==
    IF cs = <<>> THEN chan
    ELSE Drive(name,
               IF Head(cs).ch = name
                   THEN PWM_Update_Duty_Cycle(chan, Head(cs).duty) ELSE chan,
               Tail(cs))

-----------------------------------------------------------------------------
(* Timer_0A_Periodic_Task, main.c:151-177 *)

\* mutant of Qualifies: the test is made on the value before the increment
Qualifies_Stale(t) == U32Mod(t, 5) = 1

\* main.c:155  (Timer_0A_ms_elapsed % 5) == 0
Qualifies(t) == U32Mod(t, 5) = 0

\* mutant of FadeStep: at the ceiling the direction is reversed (a triangle wave)
FadeStep_Bounce(duty, inc) ==
    IF inc = 1
    THEN LET raised == (duty + 50) % Uint16
         IN  IF raised >= 56250 THEN [duty |-> raised, inc |-> 0]
             ELSE [duty |-> raised, inc |-> inc]
    ELSE IF duty > 0
         THEN [duty |-> (duty + Uint16 - 50) % Uint16, inc |-> inc]
         ELSE [duty |-> duty, inc |-> 1]

\* mutant of FadeStep: the falling branch subtracts without testing for 0
FadeStep_NoFloor(duty, inc) ==
    IF inc = 1
    THEN LET raised == (duty + 50) % Uint16
         IN  [duty |-> IF raised >= 56250 THEN 0 ELSE raised, inc |-> inc]
    ELSE [duty |-> (duty + Uint16 - 50) % Uint16, inc |-> IF duty = 0 THEN 1 ELSE inc]

\* mutant of FadeStep: the rising branch never resets the duty value
FadeStep_NoReset(duty, inc) ==
    IF inc = 1
    THEN [duty |-> (duty + 50) % Uint16, inc |-> inc]
    ELSE IF duty > 0
         THEN [duty |-> (duty + Uint16 - 50) % Uint16, inc |-> inc]
         ELSE [duty |-> duty, inc |-> 1]

\* main.c:157-173  the duty value and the direction flag after one qualifying tick
FadeStep(duty, inc) ==
    IF inc = 1
    THEN LET raised == (duty + 50) % Uint16
         IN  [duty |-> IF raised >= 56250 THEN 0 ELSE raised, inc |-> inc]
    ELSE IF duty > 0
         THEN [duty |-> (duty + Uint16 - 50) % Uint16, inc |-> inc]
         ELSE [duty |-> duty, inc |-> 1]

\* mutant of FadeCalls: a duty value of 0 is not pushed to the driver
FadeCalls_SkipZero(duty) == IF duty = 0 THEN <<>> ELSE <<Call("PWM1_3", duty)>>

\* main.c:175  the driver call of a qualifying tick
FadeCalls(duty) == <<Call("PWM1_3", duty)>>

Timer_0A_Periodic_Task ==
    LET t == U32Inc(Timer_0A_ms_elapsed)
        f == FadeStep(RGB_LED_duty_cycle, increment_duty_cycle)
        cs == IF Qualifies(t) THEN FadeCalls(f.duty) ELSE <<>>
    IN  /\ Timer_0A_ms_elapsed' = t
        /\ IF Qualifies(t)
           THEN /\ RGB_LED_duty_cycle' = f.duty
                /\ increment_duty_cycle' = f.inc
           ELSE UNCHANGED <<RGB_LED_duty_cycle, increment_duty_cycle>>
        /\ calls' = cs
        /\ PWM1_3' = Drive("PWM1_3", PWM1_3, cs)
        /\ PWM0_0' = Drive("PWM0_0", PWM0_0, cs)
        /\ op' = "Timer_0A_Periodic_Task"
        /\ idle_ticks' = IF Qualifies(t) THEN 0 ELSE idle_ticks + 1

-----------------------------------------------------------------------------
(* PMOD_BTN_Handler, main.c:100-138 *)

\* mutant of BtnCalls: each button is tested by its bit, not by the exact status
BtnCalls_BitTest(pmod_btn_status) ==
    CASE (pmod_btn_status \div 4) % 2 = 1  -> <<Call("PWM0_0", 1875)>>
      [] (pmod_btn_status \div 8) % 2 = 1  -> <<Call("PWM0_0", 3125)>>
      [] (pmod_btn_status \div 16) % 2 = 1 -> <<Call("PWM0_0", 5000)>>
      [] (pmod_btn_status \div 32) % 2 = 1 -> <<Call("PWM0_0", 7187)>>
      [] OTHER                             -> <<>>

\* mutant of BtnCalls: the default case puts the servo back to its initial duty
BtnCalls_DefaultResets(pmod_btn_status) ==
    CASE pmod_btn_status = 4  -> <<Call("PWM0_0", 1875)>>
      [] pmod_btn_status = 8  -> <<Call("PWM0_0", 3125)>>
      [] pmod_btn_status = 16 -> <<Call("PWM0_0", 5000)>>
      [] pmod_btn_status = 32 -> <<Call("PWM0_0", 7187)>>
      [] OTHER                -> <<Call("PWM0_0", 1875)>>

\* mutant of BtnCalls: BTN1 updates the LED channel instead of the servo channel
BtnCalls_WrongChannel(pmod_btn_status) ==
    CASE pmod_btn_status = 4  -> <<Call("PWM0_0", 1875)>>
      [] pmod_btn_status = 8  -> <<Call("PWM1_3", 3125)>>
      [] pmod_btn_status = 16 -> <<Call("PWM0_0", 5000)>>
      [] pmod_btn_status = 32 -> <<Call("PWM0_0", 7187)>>
      [] OTHER                -> <<>>

\* main.c:102-137  the driver calls the switch makes for a button status
BtnCalls(pmod_btn_status) ==
    CASE pmod_btn_status = 4  -> <<Call("PWM0_0", 1875)>>
      [] pmod_btn_status = 8  -> <<Call("PWM0_0", 3125)>>
      [] pmod_btn_status = 16 -> <<Call("PWM0_0", 5000)>>
      [] pmod_btn_status = 32 -> <<Call("PWM0_0", 7187)>>
      [] OTHER                -> <<>>

PMOD_BTN_Handler(pmod_btn_status) ==
    LET cs == BtnCalls(pmod_btn_status)
    IN  /\ calls' = cs
        /\ PWM1_3' = Drive("PWM1_3", PWM1_3, cs)
        /\ PWM0_0' = Drive("PWM0_0", PWM0_0, cs)
        /\ op' = "PMOD_BTN_Handler"
        /\ UNCHANGED <<fade, idle_ticks>>

-----------------------------------------------------------------------------
(* main, main.c:49-91 *)

InitLines == {"L52", "L56", "L62", "L68", "L71", "L74"}

UpdateLines == {"L80", "L84", "L88"}

DelayLines == {"L81", "L85", "L89"}

\* mutant of NextLine: the interrupt sources are initialised before the PWM channels
NextLine_HandlersFirst(line) ==
    CASE line = "L52" -> "L56" [] line = "L56" -> "L71" [] line = "L71" -> "L74"
      [] line = "L74" -> "L62" [] line = "L62" -> "L68" [] line = "L68" -> "L80"
      [] line = "L80" -> "L81" [] line = "L81" -> "L84"
      [] line = "L84" -> "L85" [] line = "L85" -> "L88"
      [] line = "L88" -> "L89" [] line = "L89" -> "L80"

\* the line main() runs after `line`
NextLine(line) ==
    CASE line = "L52" -> "L56" [] line = "L56" -> "L62" [] line = "L62" -> "L68"
      [] line = "L68" -> "L71" [] line = "L71" -> "L74" [] line = "L74" -> "L80"
      [] line = "L80" -> "L81" [] line = "L81" -> "L84"
      [] line = "L84" -> "L85" [] line = "L85" -> "L88"
      [] line = "L88" -> "L89" [] line = "L89" -> "L80"

\* mutant of MainPreset: the last preset is 105% of the period instead of 95%
MainPreset_Overrange(line) ==
    CASE line = "L80" -> 3125 [] line = "L84" -> 18750 [] line = "L88" -> 65625

\* mutant of MainPreset: the 30% and 95% presets are exchanged
MainPreset_Swapped(line) ==
    CASE line = "L80" -> 3125 [] line = "L84" -> 59375 [] line = "L88" -> 18750

\* main.c:80, 84, 88  the duty value main() passes at each update line
MainPreset(line) ==
    CASE line = "L80" -> 3125 [] line = "L84" -> 18750 [] line = "L88" -> 59375

\* main.c:80, 84, 88  the driver call of an update line
MainCalls(line) == <<Call("PWM1_3", MainPreset(line))>>

\* main.c:81, 85, 89  the argument of SysTick_Delay1ms
DelayMs(line) == 2000

\* main.c:52, 56  SysTick_Delay_Init, PWM_Clock_Init
main_Clock_Init ==
    /\ pc \in {"L52", "L56"}
    /\ pc' = NextLine(pc)
    /\ op' = "main" /\ calls' = <<>>
    /\ UNCHANGED <<fade, idle_ticks, PWM1_3, PWM0_0, handlers, delay_left, preempts, now, main_log>>

\* main.c:62  PWM1_3_Init(62500, 3125)
main_PWM1_3_Init ==
    /\ pc = "L62"
    /\ PWM1_3' = PWM_Init(62500, 3125)
    /\ pc' = NextLine(pc)
    /\ op' = "main" /\ calls' = <<>>
    /\ UNCHANGED <<fade, idle_ticks, PWM0_0, handlers, delay_left, preempts, now, main_log>>

\* main.c:68  PWM0_0_Init(62500, 1875)
main_PWM0_0_Init ==
    /\ pc = "L68"
    /\ PWM0_0' = PWM_Init(62500, 1875)
    /\ pc' = NextLine(pc)
    /\ op' = "main" /\ calls' = <<>>
    /\ UNCHANGED <<fade, idle_ticks, PWM1_3, handlers, delay_left, preempts, now, main_log>>

\* main.c:71  PMOD_BTN_Interrupt_Init(&PMOD_BTN_Handler)
main_PMOD_BTN_Interrupt_Init ==
    /\ pc = "L71"
    /\ handlers' = handlers \cup {"PMOD_BTN_Handler"}
    /\ pc' = NextLine(pc)
    /\ op' = "main" /\ calls' = <<>>
    /\ UNCHANGED <<fade, idle_ticks, PWM1_3, PWM0_0, delay_left, preempts, now, main_log>>

\* main.c:74  Timer_0A_Interrupt_Init(&Timer_0A_Periodic_Task)
main_Timer_0A_Interrupt_Init ==
    /\ pc = "L74"
    /\ handlers' = handlers \cup {"Timer_0A_Periodic_Task"}
    /\ pc' = NextLine(pc)
    /\ op' = "main" /\ calls' = <<>>
    /\ UNCHANGED <<fade, idle_ticks, PWM1_3, PWM0_0, delay_left, preempts, now, main_log>>

\* main.c:80, 84, 88  PWM1_3_Update_Duty_Cycle(preset)
main_Update ==
    /\ pc \in UpdateLines
    /\ LET cs == MainCalls(pc)
       IN  /\ calls' = cs
           /\ main_log' = main_log \o cs
           /\ PWM1_3' = Drive("PWM1_3", PWM1_3, cs)
           /\ PWM0_0' = Drive("PWM0_0", PWM0_0, cs)
    /\ pc' = NextLine(pc)
    /\ op' = "main"
    /\ UNCHANGED <<fade, idle_ticks, handlers, delay_left, preempts, now>>

\* main.c:81, 85, 89  SysTick_Delay1ms(2000) is entered: main blocks
main_Delay_Call ==
    /\ pc \in DelayLines
    /\ delay_left = 0
    /\ delay_left' = DelayMs(pc)
    /\ preempts' = 0
    /\ pc' = pc \o "w"
    /\ op' = "main" /\ calls' = <<>>
    /\ UNCHANGED <<fade, idle_ticks, PWM1_3, PWM0_0, handlers, now, main_log>>

\* main.c:81, 85, 89  SysTick_Delay1ms returns once its milliseconds have passed
main_Delay_Return ==
    /\ \E line \in DelayLines :
          /\ pc = line \o "w"
          /\ pc' = NextLine(line)
    /\ delay_left = 0
    /\ op' = "main" /\ calls' = <<>>
    /\ UNCHANGED <<fade, idle_ticks, PWM1_3, PWM0_0, handlers, delay_left, preempts, now, main_log>>

\* main is inside SysTick_Delay1ms with time left to wait
Blocked == pc \in {line \o "w" : line \in DelayLines} /\ delay_left > 0

-----------------------------------------------------------------------------
(* The interrupt sources *)

\* Timer 0A fires (every 1 ms) and its registered callback runs to completion
Timer_0A_Interrupt(limit) ==
    /\ "Timer_0A_Periodic_Task" \in handlers
    /\ now < limit
    /\ now' = now + 1
    /\ IF Blocked
       THEN delay_left' = delay_left - 1 /\ preempts' = preempts
       ELSE /\ preempts < MaxPreempt
            /\ preempts' = preempts + 1
            /\ delay_left' = delay_left
    /\ Timer_0A_Periodic_Task
    /\ UNCHANGED <<handlers, pc, main_log>>

\* a rising edge on the PMOD BTN lines: the registered callback runs with the status
PMOD_BTN_Interrupt(pmod_btn_status) ==
    /\ "PMOD_BTN_Handler" \in handlers
    /\ PMOD_BTN_Handler(pmod_btn_status)
    /\ UNCHANGED <<handlers, pc, delay_left, preempts, now, main_log>>

-----------------------------------------------------------------------------
(* Specifications *)

\* the 8-bit button status values
Masks == 0 .. 255

\* the recognised statuses, no button, two buttons at once, all lines high
SomeMasks == {0, 4, 8, 12, 16, 32, 255}

\* the program at reset, the two fade statics holding `duty` and `inc`
InitWith(duty, inc) ==
    /\ Timer_0A_ms_elapsed = U32(0)
    /\ RGB_LED_duty_cycle = duty
    /\ increment_duty_cycle = inc
    /\ PWM1_3 = PWM_Reset
    /\ PWM0_0 = PWM_Reset
    /\ handlers = {}
    /\ pc = "L52"
    /\ delay_left = 0
    /\ preempts = 0
    /\ now = 0
    /\ op = "reset"
    /\ calls = <<>>
    /\ main_log = <<>>
    /\ idle_ticks = 0

\* main.c:40, 43, 47
Init == InitWith(0, 1)

\* the fade statics set to direction FALLING, duty 150
InitFalling == InitWith(150, 0)

main_Step ==
    \/ main_Clock_Init
    \/ main_PWM1_3_Init
    \/ main_PWM0_0_Init
    \/ main_PMOD_BTN_Interrupt_Init
    \/ main_Timer_0A_Interrupt_Init
    \/ main_Update
    \/ main_Delay_Call
    \/ main_Delay_Return

Next ==
    \/ main_Step
    \/ Timer_0A_Interrupt(MaxTicks)
    \/ \E m \in SomeMasks : PMOD_BTN_Interrupt(m)

NextBtn ==
    \/ main_Step
    \/ Timer_0A_Interrupt(BtnHorizon)
    \/ now < BtnTicks /\ \E m \in Masks : PMOD_BTN_Interrupt(m)

\* The program 16 ms before the tick counter wraps, after 2^32 - 16 firings of
\* Timer 0A: the counter is 0xFFFFFFF0, a multiple of 5, so the firing that
\* led here was the 858993456th qualifying one and left the duty value at
\* 50 * (858993456 % 1125) = 41550 on PWM1_3.  main() is in the delay after
\* its 59375 call with 8 ms to go (main_log holds the calls of this round of
\* the loop); no button has been pressed.
InitWrap ==
    /\ Timer_0A_ms_elapsed = [hi |-> Uint16 - 1, lo |-> Uint16 - 16]
    /\ RGB_LED_duty_cycle = 41550
    /\ increment_duty_cycle = 1
    /\ PWM1_3 = PWM_Update_Duty_Cycle(PWM_Init(62500, 3125), 41550)
    /\ PWM0_0 = PWM_Init(62500, 1875)
    /\ handlers = {"PMOD_BTN_Handler", "Timer_0A_Periodic_Task"}
    /\ pc = "L89w"
    /\ delay_left = 8
    /\ preempts = 0
    /\ now = 0
    /\ op = "Timer_0A_Periodic_Task"
    /\ calls = FadeCalls(41550)
    /\ main_log = MainCalls("L80") \o MainCalls("L84") \o MainCalls("L88")
    /\ idle_ticks = 0

\* the steps of the running loop and the two interrupt sources
NextWrap ==
    \/ main_Update
    \/ main_Delay_Call
    \/ main_Delay_Return
    \/ Timer_0A_Interrupt(WrapTicks)
    \/ \E m \in SomeMasks : PMOD_BTN_Interrupt(m)

Spec == Init /\ [][Next]_vars

SpecWrap == InitWrap /\ [][NextWrap]_vars

SpecFalling == InitFalling /\ [][Next]_vars

SpecBtn == Init /\ [][NextBtn]_vars

-----------------------------------------------------------------------------
(* Properties *)

\* the step ran Timer_0A_Periodic_Task, and the counter it left is divisible by 5
QualifyingTick ==
    /\ Timer_0A_ms_elapsed' # Timer_0A_ms_elapsed
    /\ U32Mod(Timer_0A_ms_elapsed', 5) = 0

\* the step ran Timer_0A_Periodic_Task, and the counter it left is not divisible by 5
IdleTick ==
    /\ Timer_0A_ms_elapsed' # Timer_0A_ms_elapsed
    /\ U32Mod(Timer_0A_ms_elapsed', 5) # 0

\* C1: from the initial state every qualifying invocation of the periodic task
\* raises the duty value by exactly 50, except that when the raised value is
\* >= 56250 the duty value becomes exactly 0; the direction flag is RISING (1)
\* before and after every such invocation.
C1_RisingSawtooth ==
    [][QualifyingTick =>
          /\ increment_duty_cycle = 1
          /\ increment_duty_cycle' = 1
          /\ RGB_LED_duty_cycle' =
                IF RGB_LED_duty_cycle + 50 >= 56250 THEN 0
                ELSE RGB_LED_duty_cycle + 50]_vars

\* C1 witness: the invocation that found 56200 has run: the duty value is back
\* to 0 after 1125 qualifying invocations and the flag is still RISING.
C1_Witness ==
    /\ op = "Timer_0A_Periodic_Task"
    /\ Timer_0A_ms_elapsed = U32(5625)
    /\ RGB_LED_duty_cycle = 0
    /\ increment_duty_cycle = 1

LoopRunning ==
    /\ handlers = {"PMOD_BTN_Handler", "Timer_0A_Periodic_Task"}
    /\ pc \notin InitLines

\* C3 (as claimed): with the loop running from time 0, the duty of PWM1_3 is
\* 3125 throughout [0,2000) ms, 18750 throughout [2000,4000) ms and 59375
\* throughout [4000,6000) ms, repeating with period 6000 ms.
C3_Claim_PresetHeld ==
    LoopRunning =>
        PWM1_3.duty = (IF now % 6000 < 2000 THEN 3125
                       ELSE IF now % 6000 < 4000 THEN 18750
                       ELSE 59375)

\* C4 (as claimed): no PWM channel that main()'s loop has written is written
\* by an interrupt handler.
C4_Claim_SeparateChannels ==
    op \in {"Timer_0A_Periodic_Task", "PMOD_BTN_Handler"} =>
        \A i \in 1 .. Len(calls) : \A j \in 1 .. Len(main_log) :
            calls[i].ch # main_log[j].ch

C6_OnlyEveryFifthTick ==
    [][/\ IdleTick =>
             /\ UNCHANGED <<RGB_LED_duty_cycle, increment_duty_cycle>>
             /\ calls' = <<>>
             /\ UNCHANGED <<PWM1_3, PWM0_0>>
       /\ <<RGB_LED_duty_cycle, increment_duty_cycle>>' #
              <<RGB_LED_duty_cycle, increment_duty_cycle>> => QualifyingTick]_vars

\* C6 witness: the task has just run on tick 5624, one before the tick of the
\* reset, and left the duty value at 56200 without a driver call.
C6_Witness ==
    /\ op = "Timer_0A_Periodic_Task"
    /\ Timer_0A_ms_elapsed = U32(5624)
    /\ calls = <<>>
    /\ RGB_LED_duty_cycle = 56200

\* the number of qualifying invocations so far is q (tick counter below 2^16)
Qualified(q) == Timer_0A_ms_elapsed.hi = 0 /\ Timer_0A_ms_elapsed.lo \div 5 = q

\* C7: started with direction FALLING and duty 150, the first three qualifying
\* invocations leave 100, 50, 0 with the direction still FALLING, the fourth
\* sets the direction to RISING with the duty still 0, and the duty value is
\* never taken below 0 (never wraps to a value above the fade range).
C7_FallingRun ==
    /\ Qualified(0) => RGB_LED_duty_cycle = 150 /\ increment_duty_cycle = 0
    /\ Qualified(1) => RGB_LED_duty_cycle = 100 /\ increment_duty_cycle = 0
    /\ Qualified(2) => RGB_LED_duty_cycle = 50 /\ increment_duty_cycle = 0
    /\ Qualified(3) => RGB_LED_duty_cycle = 0 /\ increment_duty_cycle = 0
    /\ Qualified(4) => RGB_LED_duty_cycle = 0 /\ increment_duty_cycle = 1
    /\ RGB_LED_duty_cycle < 56250

\* C7 witness: the fourth qualifying invocation has run.
C7_Witness ==
    /\ op = "Timer_0A_Periodic_Task"
    /\ Timer_0A_ms_elapsed = U32(20)
    /\ RGB_LED_duty_cycle = 0
    /\ increment_duty_cycle = 1

\* C8: in every reachable state the duty value is a multiple of 50 in 0 .. 56250.
C8_DutyRange ==
    /\ RGB_LED_duty_cycle % 50 = 0
    /\ RGB_LED_duty_cycle >= 0
    /\ RGB_LED_duty_cycle <= 56250

\* C8 witness: the largest value the fade reaches, one step below the ceiling,
\* with button events and main-loop calls having happened as well.
C8_Witness ==
    /\ RGB_LED_duty_cycle = 56200
    /\ PWM0_0.duty = 7187
    /\ Len(main_log) = 3

\* C9: the tick counter, the duty value and the direction flag are left
\* unchanged by every step of PMOD_BTN_Handler and of main(); they change only
\* in Timer_0A_Periodic_Task; PMOD_BTN_Handler leaves PWM1_3 unchanged and
\* Timer_0A_Periodic_Task leaves PWM0_0 unchanged.
C9_SingleWriter ==
    [][/\ op' \in {"PMOD_BTN_Handler", "main"} => UNCHANGED fade
       /\ fade' # fade => op' = "Timer_0A_Periodic_Task"
       /\ op' = "PMOD_BTN_Handler" => UNCHANGED PWM1_3
       /\ op' = "Timer_0A_Periodic_Task" => UNCHANGED PWM0_0]_vars

\* C9 witness: a button event has moved the servo channel after the fade task
\* has moved the LED channel.
C9_Witness ==
    /\ op = "PMOD_BTN_Handler"
    /\ calls # <<>>
    /\ PWM0_0.duty = 5000
    /\ PWM1_3.duty = RGB_LED_duty_cycle
    /\ RGB_LED_duty_cycle = 100

\* the presets of the loop, in the order of the claim
C10_Order == <<3125, 18750, 59375>>

\* C10: whatever button events and timer interrupts occur, the update calls
\* main() has issued are 3125, 18750, 59375, 3125, ... in that cyclic order on
\* PWM1_3, the k-th call is not issued before 2000 * (k - 1) ms have passed,
\* and once in the loop main() stays in it.
C10_MainSequence ==
    /\ \A k \in 1 .. Len(main_log) :
          main_log[k] = [ch |-> "PWM1_3", duty |-> C10_Order[((k - 1) % 3) + 1]]
    /\ now >= 2000 * (Len(main_log) - 1)
    /\ Len(main_log) > 0 => pc \notin InitLines
    /\ pc \in UpdateLines => Len(main_log) % 3 = (CASE pc = "L80" -> 0
                                                    [] pc = "L84" -> 1
                                                    [] pc = "L88" -> 2)

\* C10 witness: the loop has gone round once and issued its fourth call.
C10_Witness ==
    /\ Len(main_log) = 4
    /\ main_log[4].duty = 3125
    /\ op = "main"
    /\ PWM0_0.duty # 1875

\* C11: every qualifying invocation of the periodic task makes exactly one
\* driver call, PWM1_3_Update_Duty_Cycle(d), with d the duty value the
\* invocation leaves, also when the invocation left the duty value as it was;
\* an invocation that is not qualifying makes none.
C11_PushEveryFifthTick ==
    [][/\ QualifyingTick =>
             calls' = <<[ch |-> "PWM1_3", duty |-> RGB_LED_duty_cycle']>>
       /\ IdleTick => calls' = <<>>]_vars

\* C11 witness: the qualifying invocation that found FALLING with duty 0 has
\* run: the duty value is unchanged and 0 was pushed to PWM1_3 all the same.
C11_Witness ==
    /\ op = "Timer_0A_Periodic_Task"
    /\ Timer_0A_ms_elapsed = U32(20)
    /\ calls = <<[ch |-> "PWM1_3", duty |-> 0]>>
    /\ PWM1_3.duty = 0

\* C12 (as claimed): every qualifying invocation of the periodic task comes
\* after exactly 4 invocations that were not qualifying, also in a run in
\* which the 32-bit tick counter wraps from 2^32 - 1 to 0.
C12_Claim_CadenceOfFive ==
    [][QualifyingTick => idle_ticks = 4]_vars

\* C13: every invocation of the periodic task, qualifying or not, adds exactly
\* 1 modulo 2^32 to the tick counter, and the mod-5 test (which decides whether
\* a driver call is made) sees the incremented value; no other step assigns
\* the counter.
C13_TickIncrement ==
    [][LET t == Timer_0A_ms_elapsed
           plus1 == IF t.lo < 65535 THEN [hi |-> t.hi, lo |-> t.lo + 1]
                    ELSE IF t.hi < 65535 THEN [hi |-> t.hi + 1, lo |-> 0]
                    ELSE [hi |-> 0, lo |-> 0]
       IN  /\ op' = "Timer_0A_Periodic_Task" =>
                 /\ Timer_0A_ms_elapsed' = plus1
                 /\ (calls' # <<>>) <=> (U32Mod(plus1, 5) = 0)
           /\ op' # "Timer_0A_Periodic_Task" => Timer_0A_ms_elapsed' = t]_vars

\* C13 witness: the invocation that found 2^32 - 1 has run and left 0.
C13_Witness ==
    /\ op = "Timer_0A_Periodic_Task"
    /\ Timer_0A_ms_elapsed = [hi |-> 0, lo |-> 0]
    /\ now = 16

\* C14: every duty value handed to a PWM driver is at most the 62500-tick
\* period its channel was initialised with: the channel is initialised when
\* an update call is made, each initialised channel has period 62500 and
\* holds a duty (the value of the Init call or of the latest update call) no
\* larger, and so is every value in the calls of the routine that ran last and
\* in the calls main() has made.
C14_DutyWithinPeriod ==
    /\ PWM1_3.ready => PWM1_3.period = 62500 /\ PWM1_3.duty <= PWM1_3.period
    /\ PWM0_0.ready => PWM0_0.period = 62500 /\ PWM0_0.duty <= PWM0_0.period
    /\ \A i \in 1 .. Len(calls) :
          LET chan == IF calls[i].ch = "PWM1_3" THEN PWM1_3 ELSE PWM0_0
          IN  chan.ready /\ calls[i].duty >= 0 /\ calls[i].duty <= chan.period
    /\ \A j \in 1 .. Len(main_log) : main_log[j].duty <= 62500

\* C14 witness: main() has just passed its largest preset, after the fade task
\* and the button handler have made calls of their own.
C14_Witness ==
    /\ op = "main"
    /\ calls = <<[ch |-> "PWM1_3", duty |-> 59375]>>
    /\ PWM0_0.duty = 7187
    /\ RGB_LED_duty_cycle >= 40000

\* C15: in every execution from the initial state the 16-bit arithmetic of the
\* periodic task does not wrap: when it adds 50 the sum is at most 65535, and
\* when it subtracts 50 the value is at least 50; the value stored is the
\* exact sum, or 0 after the reset.
C15_NoWraparound ==
    [][QualifyingTick =>
          /\ increment_duty_cycle = 1 =>
                /\ RGB_LED_duty_cycle + 50 <= 65535
                /\ RGB_LED_duty_cycle' \in {0, RGB_LED_duty_cycle + 50}
          /\ (increment_duty_cycle # 1 /\ RGB_LED_duty_cycle > 0) =>
                /\ RGB_LED_duty_cycle >= 50
                /\ RGB_LED_duty_cycle' = RGB_LED_duty_cycle - 50]_vars

\* C15 witness: the largest sum the task forms, 56200 + 50, has been formed
\* and the reset has stored 0.
C15_Witness ==
    /\ op = "Timer_0A_Periodic_Task"
    /\ Timer_0A_ms_elapsed = U32(5625)
    /\ calls = <<[ch |-> "PWM1_3", duty |-> 0]>>
    /\ idle_ticks = 0

\* C16: once PWM0_0 is initialised (with duty 1875), a recognised button
\* status sets its duty to the preset of that status whatever the duty was
\* before, and an unrecognised status, an invocation of the periodic task and
\* a step of main() leave the channel as it is; so the duty is always the
\* preset of the latest recognised status, or 1875 when there was none.
C16_ServoFollowsLastButton ==
    [][/\ \A m \in 0 .. 255 :
             PMOD_BTN_Interrupt(m) =>
                 PWM0_0' = [ready |-> TRUE, period |-> 62500,
                            duty |-> IF m = 4 THEN 1875
                                     ELSE IF m = 8 THEN 3125
                                     ELSE IF m = 16 THEN 5000
                                     ELSE IF m = 32 THEN 7187
                                     ELSE PWM0_0.duty]
       /\ (op' \in {"Timer_0A_Periodic_Task", "main"} /\ PWM0_0.ready) =>
             PWM0_0' = PWM0_0
       /\ (~PWM0_0.ready /\ PWM0_0'.ready) => PWM0_0'.duty = 1875]_vars

\* C16 witness: an unrecognised status has been delivered after BTN2 and after
\* the fade task has run; the servo still holds the preset of BTN2.
C16_Witness ==
    /\ op = "PMOD_BTN_Handler"
    /\ calls = <<>>
    /\ PWM0_0.duty = 5000
    /\ RGB_LED_duty_cycle = 50

\* C17: no PWM update call is made on a channel before its Init call; both
\* channels are initialised before either handler is registered, a handler
\* runs only once it is registered, and main() enters its loop only with both
\* handlers registered.
C17_InitOrder ==
    /\ handlers # {} => PWM1_3.ready /\ PWM0_0.ready
    /\ calls # <<>> => PWM1_3.ready /\ PWM0_0.ready
    /\ op \in {"PMOD_BTN_Handler", "Timer_0A_Periodic_Task"} =>
          /\ op \in handlers
          /\ PWM1_3.ready /\ PWM0_0.ready
    /\ pc \notin InitLines =>
          handlers = {"PMOD_BTN_Handler", "Timer_0A_Periodic_Task"}
    /\ "Timer_0A_Periodic_Task" \in handlers => "PMOD_BTN_Handler" \in handlers

\* C17 witness: the button handler has run and made a call while main() was
\* still about to register the timer callback.
C17_Witness ==
    /\ pc = "L74"
    /\ op = "PMOD_BTN_Handler"
    /\ calls = <<[ch |-> "PWM0_0", duty |-> 3125]>>
    /\ handlers = {"PMOD_BTN_Handler"}

====
